---------------------------- MODULE Spec2Model ----------------------------
(***************************************************************************)
(* A model of scripts/identify_scopes.py: the translation of the glob and  *)
(* regex lists of a scope into one regular expression (_get_match_fn),     *)
(* the containment test of an area (Area._contains), the construction of   *)
(* the scope table (Scopes.__init__) and the 'list' subcommand             *)
(* (Scopes._list_cmd, run from _main).                                     *)
(*                                                                         *)
(* A string is a sequence of one-character strings.  The regular           *)
(* expression the code builds is kept as the string the code builds; it is *)
(* then parsed and searched the way Python's re module does it, for the    *)
(* syntax that can occur here: literals, "\.", ".", "[^/]", "*", "+", "|", *)
(* "(?:" ... ")", "^" and "$".                                             *)
(***************************************************************************)
EXTENDS Integers, Sequences, FiniteSets, TLC

(***************************************************************************)
(* Bounds of the model.                                                    *)
(***************************************************************************)
MaxGlobLen == 2
MaxPathLen == 3
MaxScopes == 2
MaxFiles == 3

(***************************************************************************)
(* Strings.                                                                *)
(***************************************************************************)
StrUpTo(chars, n) == UNION {[1..k -> chars] : k \in 0..n}

\* "+" right after "*" or "+" is a possessive quantifier in some versions of
\* the re module and an error in others; such patterns are left out.
StackedRepeat(s) ==
    \E i \in 1..(Len(s) - 1) : s[i] \in {"*", "+"} /\ s[i + 1] = "+"

\* str.replace(old, new) for a one-character old
RECURSIVE replace(_, _, _)
replace(s, old, new) ==
    IF s = <<>> THEN <<>>
    ELSE (IF Head(s) = old THEN new ELSE <<Head(s)>>) \o replace(Tail(s), old, new)

\* str.endswith("/")
endswith_slash(s) == Len(s) > 0 /\ s[Len(s)] = "/"

\* "|".join(parts)
RECURSIVE join(_)
join(parts) ==
    IF parts = <<>> THEN <<>>
    ELSE IF Len(parts) = 1 THEN parts[1]
    ELSE parts[1] \o <<"|">> \o join(Tail(parts))

(***************************************************************************)
(* _get_match_fn: the regular expression built from globs and regexes.     *)
(***************************************************************************)
\* what _get_match_fn returns: None, or the search method of a compiled
\* pattern (t: the parsed pattern)
None == [kind |-> "None", t |-> <<>>]
Pattern(t) == [kind |-> "Pattern", t |-> t]
\* what re.compile raises on a pattern it rejects
ReError == [kind |-> "re.error", t |-> <<>>]

\* a translation that also escapes "+", as re.escape would
GlobRegexEscapesPlus(glob) ==
    LET r == replace(replace(replace(replace(glob, ".", <<"\\", ".">>),
                                     "+", <<"\\", "+">>),
                             "*", <<"[", "^", "/", "]", "*">>),
                     "?", <<"[", "^", "/", "]">>)
    IN  IF ~endswith_slash(glob) THEN r \o <<"$">> ELSE r

\* the regex "equivalent to the glob", with "$" unless the glob ends in "/"
glob_regex(glob) ==
    LET r == replace(replace(replace(glob, ".", <<"\\", ".">>),
                             "*", <<"[", "^", "/", "]", "*">>),
                     "?", <<"[", "^", "/", "]">>)
    IN  IF ~endswith_slash(glob) THEN r \o <<"$">> ELSE r

RECURSIVE glob_regexes(_)
glob_regexes(globs) ==
    IF globs = <<>> THEN <<>>
    ELSE <<glob_regex(Head(globs))>> \o glob_regexes(Tail(globs))

\* a pattern whose "^" and group span the regexes as well as the globs
RegexOfAnchorsAll(globs, regexes) ==
    LET parts == glob_regexes(globs) \o regexes
    IN  IF globs # <<>>
        THEN <<"^", "(", "?", ":">> \o join(parts) \o <<")">>
        ELSE join(parts)

\* the string handed to re.compile; globs and regexes are lists (None and
\* the empty list are both falsy and are both modelled by <<>>)
regex_of(globs, regexes) ==
    LET g == IF globs # <<>>
             THEN <<"^", "(", "?", ":">> \o join(glob_regexes(globs)) \o <<")">>
             ELSE <<>>
        b == IF regexes # <<>> /\ g # <<>> THEN g \o <<"|">> ELSE g
    IN  IF regexes # <<>> THEN b \o join(regexes) ELSE b

(***************************************************************************)
(* re.compile: the pattern string is parsed into items.                    *)
(***************************************************************************)
Tok(k, c) == [k |-> k, c |-> c]

RECURSIVE parse(_, _)
parse(re, i) ==
    IF i > Len(re) THEN <<>>
    ELSE IF re[i] = "\\" /\ i < Len(re)
         THEN <<Tok("lit", re[i + 1])>> \o parse(re, i + 2)
    ELSE IF re[i] = "[" /\ i + 3 <= Len(re) /\ re[i + 1] = "^" /\ re[i + 3] = "]"
         THEN <<Tok("not", re[i + 2])>> \o parse(re, i + 4)
    ELSE IF re[i] = "(" /\ i + 2 <= Len(re) /\ re[i + 1] = "?" /\ re[i + 2] = ":"
         THEN <<Tok("open", "")>> \o parse(re, i + 3)
    ELSE IF re[i] = "(" THEN <<Tok("open", "")>> \o parse(re, i + 1)
    ELSE IF re[i] = ")" THEN <<Tok("close", "")>> \o parse(re, i + 1)
    ELSE IF re[i] = "." THEN <<Tok("any", "")>> \o parse(re, i + 1)
    ELSE IF re[i] = "*" THEN <<Tok("star", "")>> \o parse(re, i + 1)
    ELSE IF re[i] = "+" THEN <<Tok("plus", "")>> \o parse(re, i + 1)
    ELSE IF re[i] = "|" THEN <<Tok("alt", "")>> \o parse(re, i + 1)
    ELSE IF re[i] = "^" THEN <<Tok("bol", "")>> \o parse(re, i + 1)
    ELSE IF re[i] = "$" THEN <<Tok("eol", "")>> \o parse(re, i + 1)
    ELSE <<Tok("lit", re[i])>> \o parse(re, i + 1)

IsRepeat(tk) == tk.k \in {"star", "plus"}

\* parentheses balance: the depth never drops below zero and ends at zero
RECURSIVE balanced(_, _, _)
balanced(t, i, d) ==
    IF i > Len(t) THEN d = 0
    ELSE IF t[i].k = "open" THEN balanced(t, i + 1, d + 1)
    ELSE IF t[i].k = "close" THEN d > 0 /\ balanced(t, i + 1, d - 1)
    ELSE balanced(t, i + 1, d)

\* "nothing to repeat" and "multiple repeat"
repeat_ok(t) ==
    \A i \in 1..Len(t) :
        IsRepeat(t[i]) =>
            /\ i > 1
            /\ t[i - 1].k \notin {"open", "alt", "bol", "eol", "star", "plus"}

\* re.compile(re): the compiled pattern, or ReError when it raises re.error
compile(re) ==
    LET t == parse(re, 1)
    IN  IF balanced(t, 1, 0) /\ repeat_ok(t) THEN Pattern(t) ELSE ReError

(***************************************************************************)
(* Pattern.search: positions are numbers of characters consumed, 0..Len(s) *)
(***************************************************************************)
\* index of the "close" matching the "open" at i - 1 (d counts nested opens)
RECURSIVE close_of(_, _, _)
close_of(t, i, d) ==
    IF t[i].k = "open" THEN close_of(t, i + 1, d + 1)
    ELSE IF t[i].k = "close" THEN (IF d = 0 THEN i ELSE close_of(t, i + 1, d - 1))
    ELSE close_of(t, i + 1, d)

\* index of the first "alt" of t[lo..hi] outside any group, 0 when none
RECURSIVE first_alt(_, _, _)
first_alt(t, lo, hi) ==
    IF lo > hi THEN 0
    ELSE IF t[lo].k = "alt" THEN lo
    ELSE IF t[lo].k = "open" THEN first_alt(t, close_of(t, lo + 1, 0) + 1, hi)
    ELSE first_alt(t, lo + 1, hi)

RECURSIVE alt_ends(_, _, _, _, _), seq_ends(_, _, _, _, _),
          item_ends(_, _, _, _, _), repeat_ends(_, _, _, _, _)

\* positions reached from the positions X by one item t[lo..e]
item_ends(t, lo, e, s, X) ==
    LET n  == Len(s)
        tk == t[lo]
    IN  CASE tk.k = "lit"  -> {i + 1 : i \in {j \in X : j < n /\ s[j + 1] = tk.c}}
          [] tk.k = "not"  -> {i + 1 : i \in {j \in X : j < n /\ s[j + 1] # tk.c}}
          [] tk.k = "any"  -> {i + 1 : i \in {j \in X : j < n /\ s[j + 1] # "\n"}}
          [] tk.k = "bol"  -> X \cap {0}
          [] tk.k = "eol"  -> {i \in X : i = n \/ (i = n - 1 /\ s[n] = "\n")}
          [] tk.k = "open" -> alt_ends(t, lo + 1, e - 1, s, X)
          [] OTHER         -> {}

\* positions reached by one or more repetitions of the item
repeat_ends(t, lo, e, s, X) ==
    LET Y == X \cup item_ends(t, lo, e, s, X)
    IN  IF Y = X THEN X ELSE repeat_ends(t, lo, e, s, Y)

\* positions reached by the items t[lo..hi] in sequence
seq_ends(t, lo, hi, s, X) ==
    IF lo > hi \/ X = {} THEN X
    ELSE LET e    == IF t[lo].k = "open" THEN close_of(t, lo + 1, 0) ELSE lo
             rep  == IF e < hi /\ IsRepeat(t[e + 1]) THEN t[e + 1].k ELSE "one"
             once == item_ends(t, lo, e, s, X)
         IN  CASE rep = "one"  -> seq_ends(t, e + 1, hi, s, once)
               [] rep = "plus" -> seq_ends(t, e + 2, hi, s, repeat_ends(t, lo, e, s, once))
               [] rep = "star" -> seq_ends(t, e + 2, hi, s, repeat_ends(t, lo, e, s, X))

\* positions reached by any branch of t[lo..hi]
alt_ends(t, lo, hi, s, X) ==
    LET k == first_alt(t, lo, hi)
    IN  IF k = 0 THEN seq_ends(t, lo, hi, s, X)
        ELSE seq_ends(t, lo, k - 1, s, X) \cup alt_ends(t, k + 1, hi, s, X)

\* fn(s) for fn the search method of a compiled pattern, as a truth value:
\* a match starts at some position of s
search(fn, s) == alt_ends(fn.t, 1, Len(fn.t), s, 0..Len(s)) # {}

\* _get_match_fn without its test for "neither globs nor regexes": the empty
\* pattern is compiled, and it matches every path
GetMatchFnNoSentinel(globs, regexes) == compile(regex_of(globs, regexes))

\* the compiled pattern whose search() _get_match_fn returns, None when there
\* are neither globs nor regexes, ReError when re.compile raises
_get_match_fn(globs, regexes) ==
    IF globs = <<>> /\ regexes = <<>> THEN None
    ELSE compile(regex_of(globs, regexes))

(***************************************************************************)
(* Area._contains, as the truth value the callers test.                    *)
(***************************************************************************)
\* a containment test that forgets the exclusion
ContainsIgnoringExclude(area, path) ==
    /\ area._match_fn # None
    /\ search(area._match_fn, path)

_contains(area, path) ==
    /\ area._match_fn # None
    /\ search(area._match_fn, path)
    /\ ~(area._exclude_match_fn # None /\ search(area._exclude_match_fn, path))

(***************************************************************************)
(* The inputs of a run: the scope file, the command line, git ls-files.    *)
(***************************************************************************)
\* One entry of the scope file.  An absent key and an empty list are both
\* <<>>; an absent description is "None".
ScopeDict(f, fr, fe, fre, l, d) ==
    [files |-> f, files_regex |-> fr, files_exclude |-> fe,
     files_regex_exclude |-> fre, labels |-> l, description |-> d]

\* files: ["*.p"], files-exclude: ["t*.p"]
DictPy == ScopeDict(<< <<"*", ".", "p">> >>, <<>>, << <<"t", "*", ".", "p">> >>, <<>>, <<>>, "None")
\* files: ["d/", "ta.p"]
DictDir == ScopeDict(<< <<"d", "/">>, <<"t", "a", ".", "p">> >>, <<>>, <<>>, <<>>, <<>>, "None")
\* files-regex: ["a"], files-regex-exclude: ["^t"]
DictRegex == ScopeDict(<<>>, << <<"a">> >>, <<>>, << <<"^", "t">> >>, <<"l">>, "None")
\* no files and no files-regex; files-exclude, labels and a description
DictNoInclude == ScopeDict(<<>>, <<>>, << <<"t", "*", ".", "p">> >>, <<>>, <<"l">>, "d")
\* files: ["+"], which re.compile rejects
DictBadGlob == ScopeDict(<< <<"+">> >>, <<>>, <<>>, <<>>, <<>>, "None")
\* files: ["*.p"], files-regex-exclude: ["*"], which re.compile rejects
DictBadExclude == ScopeDict(<< <<"*", ".", "p">> >>, <<>>, <<>>, << <<"*">> >>, <<>>, "None")

ScopeDicts == {DictPy, DictDir, DictRegex, DictNoInclude, DictBadGlob, DictBadExclude}

\* the scope file: scopes in declaration order; the name of a scope is its
\* number in that order
Configs == UNION {[1..k -> ScopeDicts] : k \in 0..MaxScopes}

\* names a command line can give: one more than can be declared
ScopeNames == 1..(MaxScopes + 1)
NoScope == 0

TrackedPaths == {<<"a", ".", "p">>, <<"t", "a", ".", "p">>, <<"d", "/", "a", ".", "p">>}

\* git ls-files lists each tracked path once
FileLists ==
    {l \in UNION {[1..k -> TrackedPaths] : k \in 0..MaxFiles} :
        \A i, j \in 1..Len(l) : l[i] = l[j] => i = j}

(***************************************************************************)
(* The state of a run of _main.                                            *)
(***************************************************************************)
VARIABLES
    pc,          \* where _main is
    args_scope,  \* args.scope: NoScope when no SCOPE was given
    config,      \* what _load_scopes returned
    scopes,      \* self.scopes, in insertion order
    files,       \* what _ls_files returned
    fi,          \* number of paths of files the loop of _list_cmd has taken
    out,         \* the lines printed
    scopelist,   \* the list _list_cmd builds
    exit,        \* how the run ended early, "None" while it has not
    cmd_called,  \* args.cmd_fn was called
    ls_called,   \* _ls_files was called
    tested       \* the <<scope, path>> pairs Area._contains was called with

vars == <<pc, args_scope, config, scopes, files, fi, out, scopelist, exit,
          cmd_called, ls_called, tested>>

Init ==
    /\ pc = "toplevel"
    /\ args_scope \in {NoScope} \cup ScopeNames
    /\ config = <<>>
    /\ scopes = <<>>
    /\ files = <<>>
    /\ fi = 0
    /\ out = <<>>
    /\ scopelist = <<>>
    /\ exit = "None"
    /\ cmd_called = FALSE
    /\ ls_called = FALSE
    /\ tested = {}

\* the run ends with sys.exit(msg) or with an uncaught exception
Exit(how) ==
    /\ pc' = "exit"
    /\ exit' = how

(***************************************************************************)
(* Scopes.__init__                                                         *)
(***************************************************************************)
\* _git("rev-parse", "--show-toplevel") returns
GitToplevel ==
    /\ pc = "toplevel"
    /\ pc' = "load"
    /\ UNCHANGED <<args_scope, config, scopes, files, fi, out, scopelist,
                   exit, cmd_called, ls_called, tested>>

\* _git raises GitError, which _main reports with _serr
GitToplevelFails ==
    /\ pc = "toplevel"
    /\ Exit("GitError rev-parse")
    /\ UNCHANGED <<args_scope, config, scopes, files, fi, out, scopelist,
                   cmd_called, ls_called, tested>>

\* _load_scopes returns the parsed scope file
LoadScopes ==
    /\ pc = "load"
    /\ \E c \in Configs : config' = c
    /\ pc' = "build"
    /\ UNCHANGED <<args_scope, scopes, files, fi, out, scopelist, exit,
                   cmd_called, ls_called, tested>>

\* _load_scopes raises: ScopeError on a YAML error (reported with _serr), or
\* the OSError of open(), which nothing catches
LoadScopesFails ==
    /\ pc = "load"
    /\ \E e \in {"ScopeError", "OSError"} : Exit(e)
    /\ UNCHANGED <<args_scope, config, scopes, files, fi, out, scopelist,
                   cmd_called, ls_called, tested>>

\* the area built from one entry of the scope file
Area(name, d) ==
    [name |-> name,
     files |-> d.files,
     labels |-> d.labels,
     description |-> d.description,
     _match_fn |-> _get_match_fn(d.files, d.files_regex),
     _exclude_match_fn |-> _get_match_fn(d.files_exclude, d.files_regex_exclude)]

\* a loop that catches re.error and goes on with the pattern left out
BuildAreaSwallowsError ==
    /\ pc = "build"
    /\ Len(scopes) < Len(config)
    /\ LET name == Len(scopes) + 1
           area == Area(name, config[name])
           Kept(fn) == IF fn = ReError THEN None ELSE fn
       IN  scopes' = Append(scopes, [area EXCEPT !._match_fn = Kept(@),
                                                 !._exclude_match_fn = Kept(@)])
    /\ UNCHANGED <<pc, exit, args_scope, config, files, fi, out, scopelist,
                   cmd_called, ls_called, tested>>

\* one iteration of the loop over the entries of the scope file; re.error
\* is caught nowhere, so a pattern that does not compile ends the run
BuildArea ==
    /\ pc = "build"
    /\ Len(scopes) < Len(config)
    /\ LET name == Len(scopes) + 1
           area == Area(name, config[name])
       IN  IF ReError \in {area._match_fn, area._exclude_match_fn}
           THEN Exit("re.error") /\ UNCHANGED scopes
           ELSE scopes' = Append(scopes, area) /\ UNCHANGED <<pc, exit>>
    /\ UNCHANGED <<args_scope, config, files, fi, out, scopelist,
                   cmd_called, ls_called, tested>>

\* the loop is over: _main calls args.cmd_fn with the scopes
CallCmd ==
    /\ pc = "build"
    /\ Len(scopes) = Len(config)
    /\ pc' = "cmd"
    /\ cmd_called' = TRUE
    /\ UNCHANGED <<args_scope, config, scopes, files, fi, out, scopelist,
                   exit, ls_called, tested>>

(***************************************************************************)
(* Scopes._list_cmd                                                        *)
(***************************************************************************)
\* self.scopes.get(args.scope) is None
Undeclared(name) == name \notin 1..Len(scopes)

\* an unknown SCOPE answered with an empty list
UnknownScopeReturnsEmpty ==
    /\ pc = "cmd"
    /\ args_scope # NoScope
    /\ Undeclared(args_scope)
    /\ pc' = "done"
    /\ UNCHANGED <<args_scope, config, scopes, files, fi, out, scopelist, exit,
                   cmd_called, ls_called, tested>>

\* a SCOPE was given and no such area is defined: _serr calls sys.exit,
\* whose SystemExit _main does not catch
UnknownScope ==
    /\ pc = "cmd"
    /\ args_scope # NoScope
    /\ Undeclared(args_scope)
    /\ Exit("no such area")
    /\ UNCHANGED <<args_scope, config, scopes, files, fi, out, scopelist,
                   cmd_called, ls_called, tested>>

\* _ls_files() returns one of the lists of paths in lists
LsFilesFrom(lists) ==
    /\ pc = "cmd"
    /\ args_scope = NoScope \/ ~Undeclared(args_scope)
    /\ \E l \in lists : files' = l
    /\ ls_called' = TRUE
    /\ pc' = "list"
    /\ UNCHANGED <<args_scope, config, scopes, fi, out, scopelist, exit,
                   cmd_called, tested>>

\* _ls_files() returns the tracked paths
LsFiles == LsFilesFrom(FileLists)

\* _ls_files() raises GitError, which _main reports with _serr
LsFilesFails ==
    /\ pc = "cmd"
    /\ args_scope = NoScope \/ ~Undeclared(args_scope)
    /\ ls_called' = TRUE
    /\ Exit("GitError ls-files")
    /\ UNCHANGED <<args_scope, config, scopes, files, fi, out, scopelist,
                   cmd_called, tested>>

\* the areas the inner loop tests for path: those up to the first that
\* contains it (the break), all of them when none does
AreasTested(path) ==
    {i \in 1..Len(scopes) : \A j \in 1..(i - 1) : ~_contains(scopes[j], path)}

\* the loop over the areas without its break: a path is listed once for
\* every area that contains it
ListAllStepNoBreak ==
    /\ pc = "list"
    /\ args_scope = NoScope
    /\ fi < Len(files)
    /\ LET path == files[fi + 1]
           hits == {i \in 1..Len(scopes) : _contains(scopes[i], path)}
           rep  == [i \in 1..Cardinality(hits) |-> path]
       IN  /\ tested' = tested \cup {<<i, path>> : i \in 1..Len(scopes)}
           /\ out' = out \o rep
           /\ scopelist' = scopelist \o rep
    /\ fi' = fi + 1
    /\ UNCHANGED <<pc, args_scope, config, scopes, files, exit, cmd_called,
                   ls_called>>

\* no SCOPE given: one iteration of the loop over the paths
ListAllStep ==
    /\ pc = "list"
    /\ args_scope = NoScope
    /\ fi < Len(files)
    /\ LET path == files[fi + 1]
           hit  == \E i \in 1..Len(scopes) : _contains(scopes[i], path)
       IN  /\ tested' = tested \cup {<<i, path>> : i \in AreasTested(path)}
           /\ out' = IF hit THEN Append(out, path) ELSE out
           /\ scopelist' = IF hit THEN Append(scopelist, path) ELSE scopelist
    /\ fi' = fi + 1
    /\ UNCHANGED <<pc, args_scope, config, scopes, files, exit, cmd_called,
                   ls_called>>

\* a loop that puts each contained path in front of the list
ListScopeStepPrepends ==
    /\ pc = "list"
    /\ args_scope # NoScope
    /\ fi < Len(files)
    /\ LET path == files[fi + 1]
           hit  == _contains(scopes[args_scope], path)
       IN  /\ tested' = tested \cup {<<args_scope, path>>}
           /\ scopelist' = IF hit THEN <<path>> \o scopelist ELSE scopelist
           /\ out' = IF hit THEN Append(out, path) ELSE out
    /\ fi' = fi + 1
    /\ UNCHANGED <<pc, args_scope, config, scopes, files, exit, cmd_called,
                   ls_called>>

\* SCOPE given: one iteration of the loop over the paths
ListScopeStep ==
    /\ pc = "list"
    /\ args_scope # NoScope
    /\ fi < Len(files)
    /\ LET path == files[fi + 1]
           hit  == _contains(scopes[args_scope], path)
       IN  /\ tested' = tested \cup {<<args_scope, path>>}
           /\ scopelist' = IF hit THEN Append(scopelist, path) ELSE scopelist
           /\ out' = IF hit THEN Append(out, path) ELSE out
    /\ fi' = fi + 1
    /\ UNCHANGED <<pc, args_scope, config, scopes, files, exit, cmd_called,
                   ls_called>>

\* return scopelist
Return ==
    /\ pc = "list"
    /\ fi = Len(files)
    /\ pc' = "done"
    /\ UNCHANGED <<args_scope, config, scopes, files, fi, out, scopelist, exit,
                   cmd_called, ls_called, tested>>

Next ==
    \/ GitToplevel
    \/ GitToplevelFails
    \/ LoadScopes
    \/ LoadScopesFails
    \/ BuildArea
    \/ CallCmd
    \/ UnknownScope
    \/ LsFiles
    \/ LsFilesFails
    \/ ListAllStep
    \/ ListScopeStep
    \/ Return

Spec == Init /\ [][Next]_vars

(***************************************************************************)
(* _get_match_fn on its own: the scope file declares one scope with        *)
(* include patterns only, the command lists that scope, and git tracks one *)
(* path; the path is listed exactly when the match function matches it.    *)
(***************************************************************************)
GlobChars == {"a", ".", "/", "*", "?", "+"}
PathChars == {"a", ".", "/", "+"}

\* "*.a", "a+/", "a|a"
ExtraGlobs == {<<"*", ".", "a">>, <<"a", "+", "/">>, <<"a", "|", "a">>}

Globs == {g \in StrUpTo(GlobChars, MaxGlobLen) : ~StackedRepeat(g)} \cup ExtraGlobs
Paths == StrUpTo(PathChars, MaxPathLen)

\* glob lists and regex lists given together: "a", "a/", "*.a"; "a", "/a",
\* ".", "a$", "+"
MixGlobLists ==
    {<< <<"a">> >>, << <<"a", "/">> >>, << <<"*", ".", "a">> >>,
     << <<"a", "/">>, <<"*", ".", "a">> >>}
MixRegexes == {<<"a">>, <<"/", "a">>, <<".">>, <<"a", "$">>, <<"+">>}
MixRegexLists == {<<r>> : r \in MixRegexes} \cup {<<r, q>> : r, q \in MixRegexes}

IncludeOnly(globs, regexes) == ScopeDict(globs, regexes, <<>>, <<>>, <<>>, "None")

MatchConfigs ==
    {<<IncludeOnly(<<g>>, <<>>)>> : g \in Globs}
    \cup {<<IncludeOnly(gl, rl)>> : gl \in MixGlobLists \cup {<<>>}, rl \in MixRegexLists}

MatchInit ==
    /\ pc = "build"
    /\ args_scope = 1
    /\ config \in MatchConfigs
    /\ scopes = <<>>
    /\ files = <<>>
    /\ fi = 0
    /\ out = <<>>
    /\ scopelist = <<>>
    /\ exit = "None"
    /\ cmd_called = FALSE
    /\ ls_called = FALSE
    /\ tested = {}

\* _ls_files() returns one path
LsOnePath == LsFilesFrom({<<p>> : p \in Paths})

MatchNext ==
    \/ BuildArea
    \/ CallCmd
    \/ LsOnePath
    \/ ListScopeStep
    \/ Return

SpecMatch == MatchInit /\ [][MatchNext]_vars

(***************************************************************************)
(* Properties of a run.                                                    *)
(***************************************************************************)
Range(q) == {q[i] : i \in 1..Len(q)}

\* the matcher of two pattern lists says yes; no pattern, no match
Says(fn, path) == fn.kind = "Pattern" /\ search(fn, path)

\* the include and the exclude matcher of an entry of the scope file
IncludeFn(d) == _get_match_fn(d.files, d.files_regex)
ExcludeFn(d) == _get_match_fn(d.files_exclude, d.files_regex_exclude)
IncludeMatcher(d, path) == Says(IncludeFn(d), path)
ExcludeMatcher(d, path) == Says(ExcludeFn(d), path)

\* C1: for every area of the table and every path, the area contains the
\* path exactly when the include matcher of its entry matches and the
\* exclude matcher of its entry does not; a path the exclude matcher matches
\* is never listed for the scope.  (The table is compared while it is built
\* and when it is handed to the command; no later step changes it.)
C1_ExcludeOverridesInclude ==
    /\ pc \in {"build", "cmd"} =>
          \A i \in 1..Len(scopes) :
             LET inc == IncludeFn(config[i])
                 exc == ExcludeFn(config[i])
             IN  \A p \in TrackedPaths :
                    LET c == _contains(scopes[i], p)
                        m == Says(inc, p)
                        x == Says(exc, p)
                    IN  (c <=> (m /\ ~x)) /\ (x => ~c)
    /\ (args_scope # NoScope /\ out # <<>>) =>
          LET exc == ExcludeFn(config[args_scope])
          IN  \A p \in Range(out) : ~Says(exc, p)

\* C1 witness: a path both matchers match was tested and was not listed
C1_Witness ==
    /\ pc = "done"
    /\ \E pair \in tested :
          /\ IncludeMatcher(config[pair[1]], pair[2])
          /\ ExcludeMatcher(config[pair[1]], pair[2])
          /\ pair[2] \notin Range(out)
    /\ out # <<>>

NoInclude(d) == d.files = <<>> /\ d.files_regex = <<>>

\* C2: an area whose entry has neither files nor files-regex has the
\* sentinel None as its match function and contains no path, whatever its
\* exclude patterns, labels and description; listing it prints nothing.
C2_NoIncludeContainsNothing ==
    /\ \A i \in 1..Len(scopes) :
          NoInclude(config[i]) =>
             /\ scopes[i]._match_fn = None
             /\ \A p \in TrackedPaths : ~_contains(scopes[i], p)
    /\ (args_scope # NoScope /\ pc \in {"list", "done"}
          /\ NoInclude(config[args_scope])) => out = <<>> /\ scopelist = <<>>

\* C2 witness: such an area, with exclude patterns, labels and a
\* description, was asked about a path its exclude patterns do not match
C2_Witness ==
    /\ pc = "done"
    /\ \E pair \in tested :
          /\ NoInclude(config[pair[1]])
          /\ config[pair[1]].files_exclude # <<>>
          /\ config[pair[1]].labels # <<>>
          /\ config[pair[1]].description # "None"
          /\ ~ExcludeMatcher(config[pair[1]], pair[2])
    /\ out = <<>>

\* C5: once the command runs with a SCOPE that is not declared, the run can
\* only end with the error "no such area": nothing is returned, nothing is
\* printed, the file list is not asked for and no path is tested.
C5_UnknownScopeIsAnError ==
    (cmd_called /\ args_scope # NoScope /\ Undeclared(args_scope)) =>
        /\ pc \in {"cmd", "exit"}
        /\ pc = "exit" => exit = "no such area"
        /\ ~ls_called
        /\ out = <<>>
        /\ scopelist = <<>>
        /\ tested = {}

\* C5 witness: the run ended with "no such area" while other scopes exist
C5_Witness ==
    /\ pc = "exit"
    /\ exit = "no such area"
    /\ Len(scopes) > 0

\* C6: the list returned for a declared SCOPE, and the lines printed, are the
\* paths of the file list that the scope contains, in the order of the file
\* list; while the loop runs this holds of the paths taken so far.
C6_ListScopeIsTheFilter ==
    (pc \in {"list", "done"} /\ args_scope # NoScope) =>
        LET Contained(p) == _contains(scopes[args_scope], p)
            expected == SelectSeq(SubSeq(files, 1, fi), Contained)
        IN  /\ scopelist = expected
            /\ out = expected
            /\ pc = "done" => fi = Len(files)

\* C6 witness: a finished listing that kept two paths and dropped one
C6_Witness ==
    /\ pc = "done"
    /\ args_scope # NoScope
    /\ Len(scopelist) >= 2
    /\ Len(scopelist) < Len(files)

InSomeScope(p) == \E i \in 1..Len(scopes) : _contains(scopes[i], p)
Orphan(p) == \A i \in 1..Len(scopes) : ~_contains(scopes[i], p)
ScopesContaining(p) == {i \in 1..Len(scopes) : _contains(scopes[i], p)}

CompileFails(d) ==
    ReError \in {_get_match_fn(d.files, d.files_regex),
                 _get_match_fn(d.files_exclude, d.files_regex_exclude)}

ConstructionFailures == {"GitError rev-parse", "ScopeError", "OSError", "re.error"}

\* C8: when the run ended while the table was built, and whenever some entry
\* of the loaded scope file does not compile, the command was never called
\* with the scopes, the file list was never asked for, no path was tested
\* and nothing was printed.
C8_FailedConstructionIsFatal ==
    (\/ exit \in ConstructionFailures
     \/ \E i \in 1..Len(config) : CompileFails(config[i])) =>
        /\ pc \in {"build", "exit"}
        /\ ~cmd_called
        /\ ~ls_called
        /\ tested = {}
        /\ out = <<>>
        /\ scopelist = <<>>

\* C8 witness: the run ended on a pattern that does not compile after an
\* earlier scope had been compiled
C8_Witness ==
    /\ pc = "exit"
    /\ exit = "re.error"
    /\ Len(scopes) >= 1
    /\ Len(scopes) < Len(config)

(***************************************************************************)
(* Properties of the match function.                                       *)
(***************************************************************************)
\* the patterns and the path of a finished run of SpecMatch, and its answer
TheGlobs == config[1].files
TheRegexes == config[1].files_regex
ThePath == files[1]
Answered == pc = "done" /\ Len(files) = 1
Matched == out # <<>>
OneGlob == Len(TheGlobs) = 1 /\ TheRegexes = <<>>

\* shell-style matching of a whole path: "*" is any run of characters other
\* than "/", "?" is one character other than "/", any other character of
\* the glob is itself
RECURSIVE GlobMatch(_, _)
GlobMatch(g, p) ==
    IF g = <<>> THEN p = <<>>
    ELSE IF Head(g) = "*"
         THEN \/ GlobMatch(Tail(g), p)
              \/ p # <<>> /\ Head(p) # "/" /\ GlobMatch(g, Tail(p))
    ELSE /\ p # <<>>
         /\ IF Head(g) = "?" THEN Head(p) # "/" ELSE Head(p) = Head(g)
         /\ GlobMatch(Tail(g), Tail(p))

\* C3: a glob that does not end in "/" matches a path if and only if the
\* whole path matches the glob, with "*" any run of characters other than
\* "/", "?" one character other than "/" and "." a literal dot.
C3_GlobMatchesWholePath ==
    (Answered /\ OneGlob /\ ~endswith_slash(TheGlobs[1])) =>
        (Matched <=> GlobMatch(TheGlobs[1], ThePath))

\* the characters the translation leaves alone although re reads them as
\* syntax
MetaChars == {"+", "|", "(", ")", "[", "]", "{", "}", "^", "$", "\\"}
HasMeta(g) == \E i \in 1..Len(g) : g[i] \in MetaChars
HasWildcard(g) == \E i \in 1..Len(g) : g[i] \in {"*", "?"}

\* C3, for the globs without such a character
C3_WithoutMetacharacters ==
    (Answered /\ OneGlob /\ ~endswith_slash(TheGlobs[1]) /\ ~HasMeta(TheGlobs[1])) =>
        (Matched <=> GlobMatch(TheGlobs[1], ThePath))

\* some leading part of the path matches the glob as a whole
GlobMatchesPrefix(g, p) == \E k \in 0..Len(p) : GlobMatch(g, SubSeq(p, 1, k))

\* C4: a glob that ends in "/" matches exactly the paths that begin with
\* that directory: at any depth below it, and not when the directory occurs
\* only after the start of the path.
C4_DirectoryGlobMatchesPrefix ==
    (Answered /\ OneGlob /\ endswith_slash(TheGlobs[1])) =>
        (Matched <=> GlobMatchesPrefix(TheGlobs[1], ThePath))

\* C4, for the globs without a character of MetaChars
C4_WithoutMetacharacters ==
    (Answered /\ OneGlob /\ endswith_slash(TheGlobs[1]) /\ ~HasMeta(TheGlobs[1])) =>
        (Matched <=> GlobMatchesPrefix(TheGlobs[1], ThePath))

\* the translation of one glob, compiled alone, matches at the start of p
GlobPartMatches(g, p) ==
    LET fn == compile(glob_regex(g))
    IN  fn.kind = "Pattern" /\ alt_ends(fn.t, 1, Len(fn.t), p, {0}) # {}

\* the regex r, compiled alone, matches somewhere in p; at the start of p
RegexPartMatches(r, p) == Says(compile(r), p)
RegexPartMatchesAtStart(r, p) ==
    LET fn == compile(r)
    IN  fn.kind = "Pattern" /\ alt_ends(fn.t, 1, Len(fn.t), p, {0}) # {}

\* C9: with globs and regexes together, the matcher is true for a path if
\* and only if some glob matches anchored at the start of the path or some
\* regex matches anywhere in it.
C9_GlobsAnchoredRegexesNot ==
    (Answered /\ TheGlobs # <<>> /\ TheRegexes # <<>>) =>
        (Matched <=>
            \/ \E i \in 1..Len(TheGlobs) : GlobPartMatches(TheGlobs[i], ThePath)
            \/ \E i \in 1..Len(TheRegexes) : RegexPartMatches(TheRegexes[i], ThePath))

\* C9 witness: the path is matched, no glob matches it, and no regex
\* matches it at its start: a regex matches in the middle
C9_Witness ==
    /\ Answered
    /\ TheGlobs # <<>>
    /\ TheRegexes # <<>>
    /\ Matched
    /\ \A i \in 1..Len(TheGlobs) : ~GlobPartMatches(TheGlobs[i], ThePath)
    /\ \A i \in 1..Len(TheRegexes) : ~RegexPartMatchesAtStart(TheRegexes[i], ThePath)

\* what the translation puts for one character of a glob
CharRegex(c) ==
    CASE c = "." -> <<"\\", ".">>
      [] c = "*" -> <<"[", "^", "/", "]", "*">>
      [] c = "?" -> <<"[", "^", "/", "]">>
      [] OTHER   -> <<c>>

RECURSIVE CharByChar(_)
CharByChar(g) == IF g = <<>> THEN <<>> ELSE CharRegex(Head(g)) \o CharByChar(Tail(g))

\* the paths of the model that the one glob of the scope matches
MatchSet(g) == {p \in Paths : Says(scopes[1]._match_fn, p)}

=============================================================================
